---- MODULE Spec2Model ----
(***************************************************************************)
(* Model of templates/script.js, the browser-side workflow controller of   *)
(* DSA-Auto-Code: tab switching, the generate / review / commit workflow,  *)
(* the belt -> problem -> delete cascade and the transient status area.    *)
(*                                                                         *)
(* JavaScript runs the handlers on one thread.  An async handler runs      *)
(* atomically up to its next `await`; every `await fetch(...)` and every   *)
(* `await response.json()` is a point where other events interleave.  A    *)
(* suspended handler is a record in `handlers`; its `pc` says which await  *)
(* it is parked on.  A rejected await in a handler without try/catch ends  *)
(* the handler with an unhandled rejection.                                *)
(***************************************************************************)
EXTENDS Integers, Sequences, FiniteSets, TLC

(* ------------------------------ bounds -------------------------------- *)

\* Requests the user may start (submissions and belt selections) in one run.
MaxRequests == 2
\* Longest batch of problem drafts /generate returns.
MaxBatch == 2

(* ------------------------------- data --------------------------------- *)

Tabs == {"generate", "commit", "delete"}

Belts == {"white", "yellow"}

\* Problem drafts the generator may return; one of them has an empty title.
Drafts ==
  { [title |-> "Two Sum", topic |-> "arrays", readme |-> "readme-1", solution |-> "solution-1"],
    [title |-> "",        topic |-> "graphs", readme |-> "readme-2", solution |-> "solution-2"] }

\* Problem-folder names the server may list for a belt.
FolderNames == {"p1", "p2"}

ServerMessages == {"server-message"}

FormFields == {"title", "topic", "belt", "readme", "solution"}

\* The set of sequences over S of length at most n.
SeqUpTo(S, n) == UNION { [1..k -> S] : k \in 0..n }

\* Sequences of distinct elements.
NoRepeat(s) == \A i, j \in DOMAIN s : i # j => s[i] # s[j]

NoBody == [tag |-> "none", items |-> <<>>, message |-> ""]

Unparsable == [tag |-> "unparsable", items |-> <<>>, message |-> ""]

ArrayBody(items) == [tag |-> "array", items |-> items, message |-> ""]

ObjectBody(m) == [tag |-> "object", items |-> <<>>, message |-> m]

\* What `await response.json()` can produce for each endpoint.
GenerateBodies ==
  { ArrayBody(b) : b \in SeqUpTo(Drafts, MaxBatch) }
    \cup { ObjectBody(m) : m \in ServerMessages } \cup {Unparsable}

MessageBodies == { ObjectBody(m) : m \in ServerMessages } \cup {Unparsable}

ProblemsBodies ==
  { ArrayBody(n) : n \in { s \in SeqUpTo(FolderNames, Cardinality(FolderNames)) : NoRepeat(s) } }
    \cup {Unparsable}

\* How `await fetch(...)` can settle: the promise rejects, or resolves with
\* response.ok true or false.
FetchOutcomes == {"reject", "ok", "notok"}

\* The field the modelled user types into; the handlers treat the text fields alike.
EditableFields == {"title"}

EmptyForm == [f \in FormFields |-> ""]

NoHandler ==
  [id |-> 0, kind |-> "none", pc |-> "none", ok |-> FALSE, belt |-> "",
   problem |-> "", form |-> EmptyForm, by |-> 0, overlap |-> {}]

(* ------------------------------ state --------------------------------- *)

VARIABLES
  activeLinks,              \* tab links carrying class 'active'
  hiddenPanels,             \* tab panels carrying class 'hidden'
  loaderHidden,             \* loader.classList has 'hidden'
  verificationHidden,       \* verificationSection.classList has 'hidden'
  selectorContainerHidden,  \* problemSelectorContainer.classList has 'hidden'
  generateBusy,             \* aria-busy on the generate button
  commitBusy,               \* aria-busy on the commit button
  deleteBusy,               \* aria-busy on deleteBtn
  generatedProblems,        \* the global: last parsed /generate body
  problemSelector,          \* options of #problem-selector: [text, value]
  form,                     \* fields of the review (commit) form
  deleteBelt,               \* deleteBeltSelector.value
  deleteProblemOptions,     \* options of deleteProblemSelector: [text, value]
  deleteProblemValue,       \* deleteProblemSelector.value
  deleteProblemDisabled,    \* deleteProblemSelector.disabled
  deleteBtnDisabled,        \* deleteBtn.disabled
  statusContainer,          \* children of statusContainer: [id, text, type]
  timers,                   \* pending setTimeout callbacks of displayMessage
  handlers,                 \* suspended async handlers (one fetch each)
  sent,                     \* every request handed to fetch, in order
  unhandled,                \* ids of handlers ended by an unhandled rejection
  reported,                 \* belt -> names a processed /problems body listed
  lastStep                  \* the step taken last: [op, h, out, body]

domVars ==
  <<activeLinks, hiddenPanels, loaderHidden, verificationHidden,
    selectorContainerHidden, generateBusy, commitBusy, deleteBusy,
    problemSelector, form, deleteBelt, deleteProblemOptions,
    deleteProblemValue, deleteProblemDisabled, deleteBtnDisabled,
    statusContainer>>

progVars == <<domVars, generatedProblems, timers, handlers, sent, unhandled>>

vars == <<progVars, reported, lastStep>>

tabVars == <<activeLinks, hiddenPanels>>

generateVars ==
  <<loaderHidden, verificationHidden, selectorContainerHidden, generateBusy,
    generatedProblems, problemSelector, form>>

deleteVars ==
  <<deleteBelt, deleteProblemOptions, deleteProblemValue,
    deleteProblemDisabled, deleteBtnDisabled, deleteBusy>>

statusVars == <<statusContainer, timers>>

netVars == <<handlers, sent, unhandled>>

Step(op, h, out, body) == [op |-> op, h |-> h, out |-> out, body |-> body]

(* ----------------------------- helpers -------------------------------- *)

Option(text, value) == [text |-> text, value |-> value]

LoadingOption == Option("Loading...", "")

SelectProblemOption == Option("-- Select a problem --", "")

NoProblemsOption == Option("-- No problems found --", "")

ErrorLoadingOption == Option("-- Error loading --", "")

\* Requests started by a user event (not the refresh a delete triggers).
UserRequests == Cardinality({ i \in DOMAIN sent : sent[i].by = 0 })

\* The items of a parsed /generate body that index lookups can resolve:
\* an array has items, an object with a message has none.
Items(gp) == IF gp.tag = "array" THEN gp.items ELSE <<>>

\* p.title || `Problem ${i + 1}`, for the item at JavaScript index i.
OptionLabel(p, i) == IF p.title # "" THEN p.title ELSE "Problem " \o ToString(i + 1)

\* Faulty variant of the forEach of the generate handler: option values
\* count from 1 instead of being the array index.
ProblemOptionsFromOne(items) ==
  [k \in 1..Len(items) |-> Option(OptionLabel(items[k], k - 1), k)]

\* The options the forEach of the generate handler adds: value is the index.
ProblemOptions(items) ==
  [k \in 1..Len(items) |-> Option(OptionLabel(items[k], k - 1), k - 1)]

\* Faulty variant of populateVerificationForm: the solution field is not copied.
populateVerificationFormNoSolution(gp, frm, problemIndex) ==
  IF problemIndex + 1 \in DOMAIN Items(gp)
    THEN LET problem == Items(gp)[problemIndex + 1]
         IN  [frm EXCEPT !.title = problem.title,
                         !.topic = problem.topic,
                         !.readme = problem.readme]
    ELSE frm

\* Faulty variant of populateVerificationForm: without the `if (!problem)
\* return;` guard an index that resolves to nothing blanks the fields.
populateVerificationFormUnguarded(gp, frm, problemIndex) ==
  LET problem == IF problemIndex + 1 \in DOMAIN Items(gp)
                   THEN Items(gp)[problemIndex + 1]
                   ELSE [title |-> "", topic |-> "", readme |-> "", solution |-> ""]
  IN  [frm EXCEPT !.title = problem.title,
                  !.topic = problem.topic,
                  !.readme = problem.readme,
                  !.solution = problem.solution]

\* populateVerificationForm(problemIndex): the form after the call.
populateVerificationForm(gp, frm, problemIndex) ==
  IF problemIndex + 1 \in DOMAIN Items(gp)
    THEN LET problem == Items(gp)[problemIndex + 1]
         IN  [frm EXCEPT !.title = problem.title,
                         !.topic = problem.topic,
                         !.readme = problem.readme,
                         !.solution = problem.solution]
    ELSE frm

\* A new suspended handler parked on its fetch.  `overlap` records the kinds
\* of the other requests in flight at some moment of this one's life.
NewHandler(kind, belt, problem, frm, by) ==
  [id |-> Len(sent) + 1, kind |-> kind, pc |-> "fetch", ok |-> FALSE,
   belt |-> belt, problem |-> problem, form |-> frm, by |-> by, overlap |-> {}]

Launch(hs, h) ==
  { [g EXCEPT !.overlap = @ \cup {h.kind}] : g \in hs }
    \cup { [h EXCEPT !.overlap = { g.kind : g \in hs }] }

Request(h) == [id |-> h.id, ep |-> h.kind, belt |-> h.belt, problem |-> h.problem, by |-> h.by]

\* fetch(...) called by a new handler, the handlers in `hs` staying suspended.
Fetch(hs, h) ==
  /\ handlers' = Launch(hs, h)
  /\ sent' = Append(sent, Request(h))

\* displayMessage(message, type): append the element and arm its timer.
displayMessage(message, type, id) ==
  /\ statusContainer' = Append(statusContainer, [id |-> id, text |-> message, type |-> type])
  /\ timers' = timers \cup {id}

\* The handler ends with a rejected await nobody catches.
Rejected(h) ==
  /\ handlers' = handlers \ {h}
  /\ unhandled' = unhandled \cup {h.id}
  /\ UNCHANGED sent

\* The handler returns normally.
Returned(h) ==
  /\ handlers' = handlers \ {h}
  /\ UNCHANGED <<sent, unhandled>>

\* The handler moves from `await fetch` to `await response.json()`.
AwaitJson(h, ok) ==
  /\ handlers' = (handlers \ {h}) \cup {[h EXCEPT !.pc = "json", !.ok = ok]}
  /\ UNCHANGED <<sent, unhandled>>

\* Faulty variant of fetchProblemsForBelt: the delete button is not disabled
\* while the lookup is pending.
fetchProblemsForBeltKeepsButton(beltName, hs, by) ==
  /\ deleteProblemOptions' = <<LoadingOption>>
  /\ deleteProblemValue' = ""
  /\ deleteProblemDisabled' = TRUE
  /\ UNCHANGED deleteBtnDisabled
  /\ Fetch(hs, NewHandler("problems", beltName, "", EmptyForm, by))

\* fetchProblemsForBelt(beltName) up to its `await fetch`, called by `by`.
fetchProblemsForBelt(beltName, hs, by) ==
  /\ deleteProblemOptions' = <<LoadingOption>>
  /\ deleteProblemValue' = ""
  /\ deleteProblemDisabled' = TRUE
  /\ deleteBtnDisabled' = TRUE
  /\ Fetch(hs, NewHandler("problems", beltName, "", EmptyForm, by))

(* ------------------------------- Init --------------------------------- *)

\* The state the page markup gives the elements before any event.
InitMarkup ==
  /\ activeLinks = {"generate"}
  /\ hiddenPanels = Tabs \ {"generate"}
  /\ loaderHidden = TRUE
  /\ verificationHidden = TRUE
  /\ selectorContainerHidden = TRUE
  /\ generateBusy = FALSE
  /\ commitBusy = FALSE
  /\ deleteBusy = FALSE
  /\ problemSelector = <<>>
  /\ form = EmptyForm
  /\ deleteBelt = ""
  /\ deleteProblemOptions = <<Option("-- Select a belt first --", "")>>
  /\ deleteProblemValue = ""
  /\ deleteProblemDisabled = TRUE
  /\ deleteBtnDisabled = TRUE
  /\ statusContainer = <<>>

Init ==
  /\ InitMarkup
  /\ generatedProblems = ArrayBody(<<>>)
  /\ timers = {}
  /\ handlers = {}
  /\ sent = <<>>
  /\ unhandled = {}
  /\ reported = [b \in Belts \cup {""} |-> {}]
  /\ lastStep = Step("init", NoHandler, "", NoBody)

(* --------------------------- tab controller --------------------------- *)

\* Faulty variant of switchTab: 'active' is not removed from the other links.
switchTabKeepsActive(targetTab) ==
  /\ activeLinks' = activeLinks \cup {targetTab}
  /\ hiddenPanels' = { p \in Tabs : p # targetTab }
  /\ statusContainer' = <<>>
  /\ lastStep' = Step("switchTab", NoHandler, targetTab, NoBody)
  /\ UNCHANGED <<generateVars, deleteVars, commitBusy, timers, netVars, reported>>

\* switchTab(e), for the link whose data-tab is targetTab.
switchTab(targetTab) ==
  /\ activeLinks' = (activeLinks \ Tabs) \cup {targetTab}
  /\ hiddenPanels' = { p \in Tabs : p # targetTab }
  /\ statusContainer' = <<>>
  /\ lastStep' = Step("switchTab", NoHandler, targetTab, NoBody)
  /\ UNCHANGED <<generateVars, deleteVars, commitBusy, timers, netVars, reported>>

(* ------------------------- status messaging --------------------------- *)

\* Faulty variant of the timer callback: it removes the container's first
\* child instead of its own message.
MessageTimeoutRemovesFirst(id) ==
  /\ id \in timers
  /\ timers' = timers \ {id}
  /\ statusContainer' = IF statusContainer = <<>> THEN <<>> ELSE Tail(statusContainer)
  /\ lastStep' = Step("messageTimeout", NoHandler, "", NoBody)
  /\ UNCHANGED <<tabVars, generateVars, deleteVars, commitBusy, netVars, reported>>

\* The setTimeout callback of displayMessage: messageDiv.remove().
MessageTimeout(id) ==
  /\ id \in timers
  /\ timers' = timers \ {id}
  /\ statusContainer' = SelectSeq(statusContainer, LAMBDA m : m.id # id)
  /\ lastStep' = Step("messageTimeout", NoHandler, "", NoBody)
  /\ UNCHANGED <<tabVars, generateVars, deleteVars, commitBusy, netVars, reported>>

(* ----------------------- review form and selector --------------------- *)

\* problemSelector 'change': populateVerificationForm(e.target.value).
ProblemSelectorChange(value) ==
  /\ ~selectorContainerHidden
  /\ \E k \in DOMAIN problemSelector : problemSelector[k].value = value
  /\ form' = populateVerificationForm(generatedProblems, form, value)
  /\ lastStep' = Step("problemSelectorChange", NoHandler, ToString(value), NoBody)
  /\ UNCHANGED <<tabVars, loaderHidden, verificationHidden, selectorContainerHidden,
                 generateBusy, generatedProblems, problemSelector, deleteVars,
                 commitBusy, statusVars, netVars, reported>>

\* The user types into a field of the visible review form.
UserEdit(f) ==
  /\ ~verificationHidden
  /\ form[f] # "edited"
  /\ form' = [form EXCEPT ![f] = "edited"]
  /\ lastStep' = Step("userEdit", NoHandler, f, NoBody)
  /\ UNCHANGED <<tabVars, loaderHidden, verificationHidden, selectorContainerHidden,
                 generateBusy, generatedProblems, problemSelector, deleteVars,
                 commitBusy, statusVars, netVars, reported>>

(* ------------------------- generation workflow ------------------------ *)

\* Faulty variant of the generate submit handler: the review section is not
\* hidden before the request is sent.
GenerateSubmitKeepsReview(belt) ==
  /\ loaderHidden' = FALSE
  /\ selectorContainerHidden' = TRUE
  /\ statusContainer' = <<>>
  /\ generateBusy' = TRUE
  /\ LET h == NewHandler("generate", belt, "", EmptyForm, 0)
     IN  /\ Fetch(handlers, h)
         /\ lastStep' = Step("generateSubmit", h, "", NoBody)
  /\ UNCHANGED <<tabVars, verificationHidden, generatedProblems, problemSelector, form,
                 deleteVars, commitBusy, timers, unhandled, reported>>

\* generateForm 'submit', up to `await fetch('/generate', ...)`.
GenerateSubmit(belt) ==
  /\ loaderHidden' = FALSE
  /\ verificationHidden' = TRUE
  /\ selectorContainerHidden' = TRUE
  /\ statusContainer' = <<>>
  /\ generateBusy' = TRUE
  /\ LET h == NewHandler("generate", belt, "", EmptyForm, 0)
     IN  /\ Fetch(handlers, h)
         /\ lastStep' = Step("generateSubmit", h, "", NoBody)
  /\ UNCHANGED <<tabVars, generatedProblems, problemSelector, form, deleteVars,
                 commitBusy, timers, unhandled, reported>>

\* The generate handler resumes from `await fetch`.
GenerateFetchSettled(h, outcome) ==
  /\ h \in handlers /\ h.kind = "generate" /\ h.pc = "fetch"
  /\ lastStep' = Step("generateFetch", h, outcome, NoBody)
  /\ CASE outcome = "reject" ->
            /\ Rejected(h)
            /\ UNCHANGED <<loaderHidden, generateBusy, statusVars>>
       [] outcome = "ok" ->
            /\ loaderHidden' = TRUE
            /\ generateBusy' = FALSE
            /\ AwaitJson(h, TRUE)
            /\ UNCHANGED statusVars
       [] outcome = "notok" ->
            /\ loaderHidden' = TRUE
            /\ generateBusy' = FALSE
            /\ displayMessage("Error generating problems. Check server console.", "error", h.id)
            /\ Returned(h)
  /\ UNCHANGED <<tabVars, verificationHidden, selectorContainerHidden,
                 generatedProblems, problemSelector, form, deleteVars, commitBusy,
                 reported>>

\* Faulty variant of the generate handler's resumption from response.json():
\* a response to a request that is no longer the newest one is discarded.
GenerateJsonSettledDropsStale(h, body) ==
  /\ h \in handlers /\ h.kind = "generate" /\ h.pc = "json"
  /\ lastStep' = Step("generateJson", h, "ok", body)
  /\ IF body = Unparsable
       THEN /\ Rejected(h)
            /\ UNCHANGED <<generatedProblems, problemSelector, selectorContainerHidden,
                           verificationHidden, form>>
       ELSE IF \E i \in DOMAIN sent : sent[i].ep = "generate" /\ sent[i].id > h.id
         THEN /\ Returned(h)
              /\ UNCHANGED <<generatedProblems, problemSelector, selectorContainerHidden,
                             verificationHidden, form>>
         ELSE /\ generatedProblems' = body
              /\ IF Len(Items(body)) > 0
                   THEN /\ problemSelector' = ProblemOptions(Items(body))
                        /\ selectorContainerHidden' = FALSE
                        /\ verificationHidden' = FALSE
                        /\ form' = populateVerificationForm(body, [form EXCEPT !.belt = h.belt], 0)
                        /\ Returned(h)
                   ELSE /\ Rejected(h)
                        /\ UNCHANGED <<problemSelector, selectorContainerHidden,
                                       verificationHidden, form>>
  /\ UNCHANGED <<tabVars, loaderHidden, generateBusy, deleteVars, commitBusy,
                 statusVars, reported>>

\* The generate handler resumes from `generatedProblems = await response.json()`.
\* With no items it calls response.json() a second time; the body was
\* consumed by the first call, so that promise rejects and line 96 is not run.
GenerateJsonSettled(h, body) ==
  /\ h \in handlers /\ h.kind = "generate" /\ h.pc = "json"
  /\ lastStep' = Step("generateJson", h, "ok", body)
  /\ IF body = Unparsable
       THEN /\ Rejected(h)
            /\ UNCHANGED <<generatedProblems, problemSelector, selectorContainerHidden,
                           verificationHidden, form>>
       ELSE /\ generatedProblems' = body
            /\ IF Len(Items(body)) > 0
                 THEN /\ problemSelector' = ProblemOptions(Items(body))
                      /\ selectorContainerHidden' = FALSE
                      /\ verificationHidden' = FALSE
                      /\ form' = populateVerificationForm(body, [form EXCEPT !.belt = h.belt], 0)
                      /\ Returned(h)
                 ELSE /\ Rejected(h)
                      /\ UNCHANGED <<problemSelector, selectorContainerHidden,
                                     verificationHidden, form>>
  /\ UNCHANGED <<tabVars, loaderHidden, generateBusy, deleteVars, commitBusy,
                 statusVars, reported>>

(* --------------------------- commit workflow -------------------------- *)

\* commitForm.reset(): every field back to the value the markup gives it.
commitFormReset == EmptyForm

\* commitForm 'submit', up to `await fetch('/commit', ...)`.
CommitSubmit ==
  /\ commitBusy' = TRUE
  /\ LET h == NewHandler("commit", form.belt, "", form, 0)
     IN  /\ Fetch(handlers, h)
         /\ lastStep' = Step("commitSubmit", h, "", NoBody)
  /\ UNCHANGED <<tabVars, generateVars, deleteVars, statusVars, unhandled, reported>>

\* Faulty variant of the commit handler's resumption from `await fetch`: the
\* busy flag is not removed.
CommitFetchSettledKeepsBusy(h, outcome) ==
  /\ h \in handlers /\ h.kind = "commit" /\ h.pc = "fetch"
  /\ lastStep' = Step("commitFetch", h, outcome, NoBody)
  /\ IF outcome = "reject"
       THEN Rejected(h)
       ELSE AwaitJson(h, outcome = "ok")
  /\ UNCHANGED <<tabVars, generateVars, deleteVars, commitBusy, statusVars, reported>>

\* The commit handler resumes from `await fetch`.
CommitFetchSettled(h, outcome) ==
  /\ h \in handlers /\ h.kind = "commit" /\ h.pc = "fetch"
  /\ lastStep' = Step("commitFetch", h, outcome, NoBody)
  /\ IF outcome = "reject"
       THEN Rejected(h) /\ UNCHANGED commitBusy
       ELSE commitBusy' = FALSE /\ AwaitJson(h, outcome = "ok")
  /\ UNCHANGED <<tabVars, generateVars, deleteVars, statusVars, reported>>

\* Faulty variant of the commit handler's resumption from response.json():
\* the form is reset and the sections hidden whatever response.ok is.
CommitJsonSettledResetsAlways(h, body) ==
  /\ h \in handlers /\ h.kind = "commit" /\ h.pc = "json"
  /\ lastStep' = Step("commitJson", h, IF h.ok THEN "ok" ELSE "notok", body)
  /\ IF body = Unparsable
       THEN /\ Rejected(h)
            /\ UNCHANGED <<statusVars, verificationHidden, selectorContainerHidden, form>>
       ELSE /\ displayMessage(body.message, IF h.ok THEN "success" ELSE "error", h.id)
            /\ verificationHidden' = TRUE
            /\ selectorContainerHidden' = TRUE
            /\ form' = commitFormReset
            /\ Returned(h)
  /\ UNCHANGED <<tabVars, loaderHidden, generateBusy, generatedProblems,
                 problemSelector, deleteVars, commitBusy, reported>>

\* Variant of the commit handler's resumption from response.json() that
\* empties generatedProblems on success, which the handler does not do.
CommitJsonSettledDiscardsBatch(h, body) ==
  /\ h \in handlers /\ h.kind = "commit" /\ h.pc = "json"
  /\ lastStep' = Step("commitJson", h, IF h.ok THEN "ok" ELSE "notok", body)
  /\ CASE body = Unparsable ->
            /\ Rejected(h)
            /\ UNCHANGED <<statusVars, verificationHidden, selectorContainerHidden, form,
                           generatedProblems>>
       [] body # Unparsable /\ h.ok ->
            /\ displayMessage(body.message, "success", h.id)
            /\ verificationHidden' = TRUE
            /\ selectorContainerHidden' = TRUE
            /\ form' = commitFormReset
            /\ generatedProblems' = ArrayBody(<<>>)
            /\ Returned(h)
       [] body # Unparsable /\ ~h.ok ->
            /\ displayMessage(body.message, "error", h.id)
            /\ Returned(h)
            /\ UNCHANGED <<verificationHidden, selectorContainerHidden, form,
                           generatedProblems>>
  /\ UNCHANGED <<tabVars, loaderHidden, generateBusy, problemSelector, deleteVars,
                 commitBusy, reported>>

\* Faulty variant of the commit handler's resumption from response.json():
\* on success the selector container is not hidden.
CommitJsonSettledKeepsSelector(h, body) ==
  /\ h \in handlers /\ h.kind = "commit" /\ h.pc = "json"
  /\ lastStep' = Step("commitJson", h, IF h.ok THEN "ok" ELSE "notok", body)
  /\ CASE body = Unparsable ->
            /\ Rejected(h)
            /\ UNCHANGED <<statusVars, verificationHidden, form>>
       [] body # Unparsable /\ h.ok ->
            /\ displayMessage(body.message, "success", h.id)
            /\ verificationHidden' = TRUE
            /\ form' = commitFormReset
            /\ Returned(h)
       [] body # Unparsable /\ ~h.ok ->
            /\ displayMessage(body.message, "error", h.id)
            /\ Returned(h)
            /\ UNCHANGED <<verificationHidden, form>>
  /\ UNCHANGED <<tabVars, loaderHidden, generateBusy, generatedProblems,
                 problemSelector, selectorContainerHidden, deleteVars, commitBusy,
                 reported>>

\* The commit handler resumes from `const result = await response.json()`.
CommitJsonSettled(h, body) ==
  /\ h \in handlers /\ h.kind = "commit" /\ h.pc = "json"
  /\ lastStep' = Step("commitJson", h, IF h.ok THEN "ok" ELSE "notok", body)
  /\ CASE body = Unparsable ->
            /\ Rejected(h)
            /\ UNCHANGED <<statusVars, verificationHidden, selectorContainerHidden, form>>
       [] body # Unparsable /\ h.ok ->
            /\ displayMessage(body.message, "success", h.id)
            /\ verificationHidden' = TRUE
            /\ selectorContainerHidden' = TRUE
            /\ form' = commitFormReset
            /\ Returned(h)
       [] body # Unparsable /\ ~h.ok ->
            /\ displayMessage(body.message, "error", h.id)
            /\ Returned(h)
            /\ UNCHANGED <<verificationHidden, selectorContainerHidden, form>>
  /\ UNCHANGED <<tabVars, loaderHidden, generateBusy, generatedProblems,
                 problemSelector, deleteVars, commitBusy, reported>>

(* --------------------------- delete workflow -------------------------- *)

\* deleteBeltSelector 'change': the user picks another value, "" included.
DeleteBeltChange(selectedBelt) ==
  /\ selectedBelt # deleteBelt
  /\ deleteBelt' = selectedBelt
  /\ IF selectedBelt # ""
       THEN /\ fetchProblemsForBelt(selectedBelt, handlers, 0)
            /\ lastStep' = Step("deleteBeltChange",
                                NewHandler("problems", selectedBelt, "", EmptyForm, 0),
                                selectedBelt, NoBody)
       ELSE /\ lastStep' = Step("deleteBeltChange", NoHandler, selectedBelt, NoBody)
            /\ UNCHANGED <<deleteProblemOptions, deleteProblemValue,
                           deleteProblemDisabled, deleteBtnDisabled, handlers, sent>>
  /\ UNCHANGED <<tabVars, generateVars, commitBusy, deleteBusy, statusVars,
                 unhandled, reported>>

\* fetchProblemsForBelt resumes from `await fetch(`/problems/${beltName}`)`.
ProblemsFetchSettled(h, outcome) ==
  /\ h \in handlers /\ h.kind = "problems" /\ h.pc = "fetch"
  /\ lastStep' = Step("problemsFetch", h, outcome, NoBody)
  /\ CASE outcome = "reject" ->
            /\ Rejected(h)
            /\ UNCHANGED <<deleteProblemOptions, deleteProblemValue>>
       [] outcome = "ok" ->
            /\ AwaitJson(h, TRUE)
            /\ UNCHANGED <<deleteProblemOptions, deleteProblemValue>>
       [] outcome = "notok" ->
            /\ deleteProblemOptions' = <<ErrorLoadingOption>>
            /\ deleteProblemValue' = ""
            /\ Returned(h)
  /\ UNCHANGED <<tabVars, generateVars, commitBusy, deleteBusy, deleteBelt,
                 deleteProblemDisabled, deleteBtnDisabled, statusVars, reported>>

\* fetchProblemsForBelt resumes from `const problems = await response.json()`.
ProblemsJsonSettled(h, body) ==
  /\ h \in handlers /\ h.kind = "problems" /\ h.pc = "json"
  /\ lastStep' = Step("problemsJson", h, "ok", body)
  /\ IF body = Unparsable
       THEN /\ Rejected(h)
            /\ UNCHANGED <<deleteProblemOptions, deleteProblemValue,
                           deleteProblemDisabled, deleteBtnDisabled, reported>>
       ELSE /\ Returned(h)
            /\ reported' = [reported EXCEPT ![h.belt] = @ \cup { body.items[k] : k \in DOMAIN body.items }]
            /\ deleteProblemValue' = ""
            /\ IF Len(body.items) > 0
                 THEN /\ deleteProblemOptions' =
                           <<SelectProblemOption>>
                             \o [k \in DOMAIN body.items |-> Option(body.items[k], body.items[k])]
                      /\ deleteProblemDisabled' = FALSE
                      /\ deleteBtnDisabled' = FALSE
                 ELSE /\ deleteProblemOptions' = <<NoProblemsOption>>
                      /\ UNCHANGED <<deleteProblemDisabled, deleteBtnDisabled>>
  /\ UNCHANGED <<tabVars, generateVars, commitBusy, deleteBusy, deleteBelt, statusVars>>

\* The user picks an option of the enabled delete-problem selector.
DeleteProblemSelect(value) ==
  /\ ~deleteProblemDisabled
  /\ value # deleteProblemValue
  /\ \E k \in DOMAIN deleteProblemOptions : deleteProblemOptions[k].value = value
  /\ deleteProblemValue' = value
  /\ lastStep' = Step("deleteProblemSelect", NoHandler, value, NoBody)
  /\ UNCHANGED <<tabVars, generateVars, commitBusy, deleteBusy, deleteBelt,
                 deleteProblemOptions, deleteProblemDisabled, deleteBtnDisabled,
                 statusVars, netVars, reported>>

\* new FormData(deleteForm): a disabled control contributes no entry.
DeleteFormData ==
  [belt |-> deleteBelt,
   problem |-> IF deleteProblemDisabled THEN "" ELSE deleteProblemValue]

\* Faulty variant of the delete submit handler: the busy flag is set before
\* the confirmation is asked.
DeleteSubmitBusyFirst(confirmed) ==
  /\ ~deleteBtnDisabled
  /\ deleteBusy' = TRUE
  /\ IF ~confirmed
       THEN /\ lastStep' = Step("deleteDeclined", NoHandler, "", NoBody)
            /\ UNCHANGED <<handlers, sent>>
       ELSE LET h == NewHandler("delete", DeleteFormData.belt, DeleteFormData.problem,
                                EmptyForm, 0)
            IN  /\ Fetch(handlers, h)
                /\ lastStep' = Step("deleteSubmit", h, "", NoBody)
  /\ UNCHANGED <<tabVars, generateVars, commitBusy, deleteBelt, deleteProblemOptions,
                 deleteProblemValue, deleteProblemDisabled, deleteBtnDisabled,
                 statusVars, unhandled, reported>>

\* deleteForm 'submit' through the enabled delete button, up to
\* `await fetch('/delete', ...)`; `confirmed` is what confirm(...) returns.
DeleteSubmit(confirmed) ==
  /\ ~deleteBtnDisabled
  /\ IF ~confirmed
       THEN /\ lastStep' = Step("deleteDeclined", NoHandler, "", NoBody)
            /\ UNCHANGED <<deleteBusy, handlers, sent>>
       ELSE /\ deleteBusy' = TRUE
            /\ LET h == NewHandler("delete", DeleteFormData.belt, DeleteFormData.problem,
                                   EmptyForm, 0)
               IN  /\ Fetch(handlers, h)
                   /\ lastStep' = Step("deleteSubmit", h, "", NoBody)
  /\ UNCHANGED <<tabVars, generateVars, commitBusy, deleteBelt, deleteProblemOptions,
                 deleteProblemValue, deleteProblemDisabled, deleteBtnDisabled,
                 statusVars, unhandled, reported>>

\* The delete handler resumes from `await fetch`.
DeleteFetchSettled(h, outcome) ==
  /\ h \in handlers /\ h.kind = "delete" /\ h.pc = "fetch"
  /\ lastStep' = Step("deleteFetch", h, outcome, NoBody)
  /\ IF outcome = "reject"
       THEN Rejected(h) /\ UNCHANGED deleteBusy
       ELSE deleteBusy' = FALSE /\ AwaitJson(h, outcome = "ok")
  /\ UNCHANGED <<tabVars, generateVars, commitBusy, deleteBelt, deleteProblemOptions,
                 deleteProblemValue, deleteProblemDisabled, deleteBtnDisabled,
                 statusVars, reported>>

\* Faulty variant of RefreshBelt: the belt captured in the form data at submit.
RefreshBeltSubmitted(h) == h.belt

\* The belt the delete handler refreshes after a 2xx: deleteBeltSelector.value
\* as it is when the response is processed.
RefreshBelt(h) == deleteBelt

\* The delete handler resumes from `const result = await response.json()`.
DeleteJsonSettled(h, body) ==
  /\ h \in handlers /\ h.kind = "delete" /\ h.pc = "json"
  /\ lastStep' = Step("deleteJson", h, IF h.ok THEN "ok" ELSE "notok", body)
  /\ CASE body = Unparsable ->
            /\ Rejected(h)
            /\ UNCHANGED <<statusVars, deleteProblemOptions, deleteProblemValue,
                           deleteProblemDisabled, deleteBtnDisabled>>
       [] body # Unparsable /\ h.ok ->
            /\ displayMessage(body.message, "success", h.id)
            /\ fetchProblemsForBelt(RefreshBelt(h), handlers \ {h}, h.id)
            /\ UNCHANGED unhandled
       [] body # Unparsable /\ ~h.ok ->
            /\ displayMessage(body.message, "error", h.id)
            /\ Returned(h)
            /\ UNCHANGED <<deleteProblemOptions, deleteProblemValue,
                           deleteProblemDisabled, deleteBtnDisabled>>
  /\ UNCHANGED <<tabVars, generateVars, commitBusy, deleteBusy, deleteBelt, reported>>

(* --------------------------- specification ---------------------------- *)

\* The user may still start a request: fewer than MaxRequests were started.
Budget == UserRequests < MaxRequests

TabAndStatus ==
  \/ \E t \in Tabs : switchTab(t)
  \/ \E id \in timers : MessageTimeout(id)

GenerateWorkflow ==
  \/ \E v \in 0..(MaxBatch - 1) : ProblemSelectorChange(v)
  \/ \E f \in EditableFields : UserEdit(f)
  \/ \E b \in Belts : Budget /\ GenerateSubmit(b)
  \/ \E h \in handlers, o \in FetchOutcomes : GenerateFetchSettled(h, o)
  \/ \E h \in handlers, b \in GenerateBodies : GenerateJsonSettled(h, b)
  \/ Budget /\ CommitSubmit
  \/ \E h \in handlers, o \in FetchOutcomes : CommitFetchSettled(h, o)
  \/ \E h \in handlers, b \in MessageBodies : CommitJsonSettled(h, b)

DeleteWorkflow ==
  \/ \E b \in Belts \cup {""} : (b = "" \/ Budget) /\ DeleteBeltChange(b)
  \/ \E h \in handlers, o \in FetchOutcomes : ProblemsFetchSettled(h, o)
  \/ \E h \in handlers, b \in ProblemsBodies : ProblemsJsonSettled(h, b)
  \/ \E v \in FolderNames \cup {""} : DeleteProblemSelect(v)
  \/ \E c \in BOOLEAN : (~c \/ Budget) /\ DeleteSubmit(c)
  \/ \E h \in handlers, o \in FetchOutcomes : DeleteFetchSettled(h, o)
  \/ \E h \in handlers, b \in MessageBodies : DeleteJsonSettled(h, b)

\* The generate / review / commit workflow with the status area.
NextGenerate == GenerateWorkflow \/ (\E id \in timers : MessageTimeout(id))

SpecGenerate == Init /\ [][NextGenerate]_vars

\* The delete cascade with the status area.
NextDelete == DeleteWorkflow \/ (\E id \in timers : MessageTimeout(id))

SpecDelete == Init /\ [][NextDelete]_vars

\* Every handler of the page, interleaved.
Next == TabAndStatus \/ GenerateWorkflow \/ DeleteWorkflow

Spec == Init /\ [][Next]_vars

\* The /generate bodies with at most one draft: how many drafts a batch
\* holds has no bearing on the status area.
ShortBodies == { b \in GenerateBodies : Len(b.items) <= 1 }

\* The status area: the tab controller and the expiry timers, with the
\* generate handler, which both clears the container (on submission) and
\* appends messages to it (on a non-2xx response).
NextStatus ==
  \/ TabAndStatus
  \/ \E b \in Belts : Budget /\ GenerateSubmit(b)
  \/ \E h \in handlers, o \in FetchOutcomes : GenerateFetchSettled(h, o)
  \/ \E h \in handlers, b \in ShortBodies : GenerateJsonSettled(h, b)

\* A timer that was armed fires: the event loop runs every callback whose
\* delay has elapsed.  (A message carries the id of the request whose handler
\* appended it; here every request is a user's, so ids stay within MaxRequests.)
TimersFire == \A id \in 1..MaxRequests : WF_vars(MessageTimeout(id))

SpecStatus == Init /\ [][NextStatus]_vars /\ TimersFire

(* ======================================================================= *)
(* Properties                                                              *)
(* ======================================================================= *)

\* The handler the last step ran has ended (returned or rejected).
LastHandlerEnded == \A g \in handlers : g.id # lastStep.h.id

(* ------------------------------- C1 ----------------------------------- *)

\* C1: once a 2xx /generate response carrying N >= 1 problems is processed,
\* the problem selector holds exactly N options, option i is labelled with
\* item i's title or 'Problem {i+1}' when the title is empty, the selector
\* container and the review section are visible, and the review form's
\* title / topic / readme / solution are those of item 0.
C1_GenerateFillsSelectorAndForm ==
  (lastStep.op = "generateJson" /\ lastStep.body.tag = "array"
     /\ Len(lastStep.body.items) >= 1)
  => LET items == lastStep.body.items
     IN  /\ Len(problemSelector) = Len(items)
         /\ \A k \in 1..Len(items) :
              problemSelector[k].text =
                IF items[k].title = "" THEN "Problem " \o ToString(k) ELSE items[k].title
         /\ ~selectorContainerHidden
         /\ ~verificationHidden
         /\ form.title = items[1].title
         /\ form.topic = items[1].topic
         /\ form.readme = items[1].readme
         /\ form.solution = items[1].solution

\* A batch of two whose second item has no title has just been processed.
C1_Witness ==
  /\ lastStep.op = "generateJson"
  /\ Len(lastStep.body.items) = 2
  /\ lastStep.body.items[1].title = "Two Sum"
  /\ lastStep.body.items[2].title = ""
  /\ problemSelector[2].text = "Problem 2"
  /\ form.solution = "solution-1"

(* ------------------------------- C2 ----------------------------------- *)

\* C2: whatever the outcome of a generate request (2xx with items, 2xx with
\* an empty list, non-2xx, or the request rejecting), when its handler has
\* ended the loading indicator is hidden and the generate button's busy flag
\* is cleared.  (Stated for a request no other generate request overlapped.)
C2_GenerateCleanupAlways ==
  (lastStep.op \in {"generateFetch", "generateJson"} /\ LastHandlerEnded
     /\ "generate" \notin lastStep.h.overlap)
  => (loaderHidden /\ ~generateBusy)

(* ------------------------------- C3 ----------------------------------- *)

\* C3: in every workflow a network failure (fetch rejecting, or the body
\* failing to parse) is caught and turned into a status message; no handler
\* ever ends with an unhandled rejection.
C3_NetworkFailuresCaught ==
  /\ unhandled = {}
  /\ (lastStep.out = "reject" \/ lastStep.body = Unparsable)
       => \E k \in DOMAIN statusContainer : statusContainer[k].id = lastStep.h.id

(* ------------------------------- C4 ----------------------------------- *)

\* C4: for each of /generate, /commit, /problems/{belt} and /delete, a
\* non-2xx response results in a status message of kind 'error' appended by
\* the handler, and in the busy flag of the originating control cleared.
C4_NonOkShowsErrorAndClearsBusy ==
  /\ (lastStep.op = "generateFetch" /\ lastStep.out = "notok")
       => (\E k \in DOMAIN statusContainer :
             statusContainer[k].id = lastStep.h.id /\ statusContainer[k].type = "error")
          /\ ~generateBusy
  /\ (lastStep.op = "commitFetch" /\ lastStep.out = "notok") => ~commitBusy
  /\ (lastStep.op = "commitJson" /\ lastStep.out = "notok")
       => \E k \in DOMAIN statusContainer :
            statusContainer[k].id = lastStep.h.id /\ statusContainer[k].type = "error"
  /\ (lastStep.op = "deleteFetch" /\ lastStep.out = "notok") => ~deleteBusy
  /\ (lastStep.op = "deleteJson" /\ lastStep.out = "notok")
       => \E k \in DOMAIN statusContainer :
            statusContainer[k].id = lastStep.h.id /\ statusContainer[k].type = "error"
  /\ (lastStep.op = "problemsFetch" /\ lastStep.out = "notok")
       => \E k \in DOMAIN statusContainer :
            statusContainer[k].id = lastStep.h.id /\ statusContainer[k].type = "error"

(* ------------------------------- C5 ----------------------------------- *)

\* C5: when a 2xx /generate response carries an empty list, the handler
\* displays a status message whose text is the server-supplied message or
\* else 'AI generated no problems.' -- not the generic 'Error generating
\* problems...' text of the non-2xx path.
C5_EmptyBatchShowsStructuredMessage ==
  (lastStep.op = "generateJson" /\ lastStep.body.tag = "array"
     /\ Len(lastStep.body.items) = 0)
  => /\ \E k \in DOMAIN statusContainer :
          /\ statusContainer[k].id = lastStep.h.id
          /\ statusContainer[k].text \in ServerMessages \cup {"AI generated no problems."}
     /\ ~ \E k \in DOMAIN statusContainer :
          /\ statusContainer[k].id = lastStep.h.id
          /\ statusContainer[k].text = "Error generating problems. Check server console."

(* ------------------------------- C6 ----------------------------------- *)

\* Both the review section and the problem selector container are hidden.
ReviewHidden == verificationHidden /\ selectorContainerHidden

\* No generate request was submitted after request `id`.
LatestGenerate(id) == \A i \in DOMAIN sent : sent[i].ep = "generate" => sent[i].id <= id

\* C6 as stated: from a generate submission until its response, carrying 0
\* problems, has been processed, with no other generate submission in
\* between, the review section and the problem selector stay hidden.
C6_EmptyBatchNeverReveals ==
  /\ \A h \in handlers :
       (h.kind = "generate" /\ LatestGenerate(h.id)) => ReviewHidden
  /\ (lastStep.op = "generateJson" /\ lastStep.body.tag = "array"
        /\ Len(lastStep.body.items) = 0 /\ LatestGenerate(lastStep.h.id))
       => ReviewHidden

\* C6 amended: the same, provided no other generate request is in flight at
\* any moment between the submission and the processing of its response
\* (neither submitted in between nor still pending from before).
C6_EmptyBatchNeverRevealsAlone ==
  /\ \A h \in handlers :
       (h.kind = "generate" /\ "generate" \notin h.overlap) => ReviewHidden
  /\ (lastStep.op = "generateJson" /\ lastStep.body.tag = "array"
        /\ Len(lastStep.body.items) = 0 /\ "generate" \notin lastStep.h.overlap)
       => ReviewHidden

\* An empty batch has been processed for a request that ran alone, after an
\* earlier batch had filled the selector.
C6_Witness ==
  /\ lastStep.op = "generateJson"
  /\ lastStep.body = ArrayBody(<<>>)
  /\ "generate" \notin lastStep.h.overlap
  /\ Len(problemSelector) > 0
  /\ ReviewHidden

(* ------------------------------- C7 ----------------------------------- *)

\* C7: a delete submission whose confirmation the user declines changes
\* nothing: no request is sent, no status message is appended, and the busy
\* flag, the delete selectors and every other piece of state stay as they are.
C7_DeclinedDeleteChangesNothing ==
  [][lastStep'.op = "deleteDeclined" => UNCHANGED <<progVars, reported>>]_vars

\* A delete was declined with the delete button enabled and a problem chosen.
C7_Witness ==
  /\ lastStep.op = "deleteDeclined"
  /\ ~deleteBtnDisabled
  /\ deleteProblemValue # ""
  /\ Len(sent) = 1
  /\ ~deleteBusy
  /\ statusContainer = <<>>

(* ------------------------------- C8 ----------------------------------- *)

\* The handler of the last step sent exactly one /delete request, carrying
\* the belt and problem of its form data, and then one /problems request,
\* the last request sent so far, for `belt`.
DeleteThenRefresh(belt) ==
  LET h == lastStep.h
      deletes == SelectSeq(sent, LAMBDA r : r.ep = "delete" /\ r.id = h.id)
      refreshes == SelectSeq(sent, LAMBDA r : r.ep = "problems" /\ r.by = h.id)
  IN  /\ Len(deletes) = 1
      /\ deletes[1].belt = h.belt
      /\ deletes[1].problem = h.problem
      /\ Len(refreshes) = 1
      /\ refreshes[1].id > h.id
      /\ refreshes[1] = sent[Len(sent)]
      /\ refreshes[1].belt = belt

\* A 2xx /delete response with a JSON body has just been processed.
DeleteAccepted ==
  lastStep.op = "deleteJson" /\ lastStep.out = "ok" /\ lastStep.body # Unparsable

\* C8 as stated: an accepted delete for belt B and problem p triggers exactly
\* one /delete request carrying (B, p) followed by exactly one /problems
\* refresh for belt B, under every interleaving of user events.
C8_RefreshForSubmittedBelt == DeleteAccepted => DeleteThenRefresh(lastStep.h.belt)

\* C8 amended: the refresh is for the value the belt selector holds when the
\* /delete response is processed (B only if the selector was left alone).
C8_RefreshForCurrentBelt == DeleteAccepted => DeleteThenRefresh(deleteBelt)

\* An accepted delete was processed after the belt selector had been changed
\* while the /delete request was in flight.
C8_Witness ==
  /\ DeleteAccepted
  /\ lastStep.h.belt # deleteBelt
  /\ lastStep.h.problem # ""
  /\ sent[Len(sent)].ep = "problems"

(* ------------------------------- C9 ----------------------------------- *)

\* C9: in every reachable state the delete-problem selector and the delete
\* button are enabled only if a belt is selected and the server reported at
\* least one problem for the selected belt; with no belt chosen both are
\* disabled.
C9_EnabledOnlyForSelectedBelt ==
  /\ (~deleteProblemDisabled \/ ~deleteBtnDisabled)
       => (deleteBelt # "" /\ reported[deleteBelt] # {})
  /\ deleteBelt = "" => (deleteProblemDisabled /\ deleteBtnDisabled)

(* ------------------------------- C10 ---------------------------------- *)

\* C10: for a belt lookup with no other request in flight: while it is
\* pending the selector shows the loading placeholder and selector and button
\* are disabled; N >= 1 names give the placeholder followed by the names in
\* server order, selector and button enabled; an empty list gives the 'no
\* problems found' placeholder, both disabled; a non-2xx gives the 'error
\* loading' placeholder, both disabled.
C10_LookupOutcomes ==
  /\ \A h \in handlers :
       (h.kind = "problems" /\ h.overlap = {})
         => /\ deleteProblemOptions = <<[text |-> "Loading...", value |-> ""]>>
            /\ deleteProblemDisabled /\ deleteBtnDisabled
  /\ (lastStep.op = "problemsJson" /\ lastStep.body.tag = "array"
        /\ lastStep.h.overlap = {})
       => LET names == lastStep.body.items
          IN  IF Len(names) >= 1
                THEN /\ Len(deleteProblemOptions) = Len(names) + 1
                     /\ deleteProblemOptions[1] = [text |-> "-- Select a problem --", value |-> ""]
                     /\ \A k \in 1..Len(names) :
                          deleteProblemOptions[k + 1] = [text |-> names[k], value |-> names[k]]
                     /\ ~deleteProblemDisabled /\ ~deleteBtnDisabled
                ELSE /\ deleteProblemOptions = <<[text |-> "-- No problems found --", value |-> ""]>>
                     /\ deleteProblemDisabled /\ deleteBtnDisabled
  /\ (lastStep.op = "problemsFetch" /\ lastStep.out = "notok" /\ lastStep.h.overlap = {})
       => /\ deleteProblemOptions = <<[text |-> "-- Error loading --", value |-> ""]>>
          /\ deleteProblemDisabled /\ deleteBtnDisabled

\* A lookup that ran alone returned two names, listed in the server's order.
C10_Witness ==
  /\ lastStep.op = "problemsJson"
  /\ lastStep.body.items = <<"p2", "p1">>
  /\ lastStep.h.overlap = {}
  /\ Len(deleteProblemOptions) = 3
  /\ ~deleteBtnDisabled

(* ------------------------------- C11 ---------------------------------- *)

\* A 2xx /commit response with a JSON body has just been processed.
CommitAccepted ==
  lastStep.op = "commitJson" /\ lastStep.out = "ok" /\ lastStep.body # Unparsable

\* The handler of the last step appended, as the newest element of the
\* status container, a message of kind `type` with the server's text.
LastMessageIs(type) ==
  /\ Len(statusContainer) >= 1
  /\ statusContainer[Len(statusContainer)] =
       [id |-> lastStep.h.id, text |-> lastStep.body.message, type |-> type]

\* C11 as stated: once a 2xx commit response is processed, a 'success'
\* message with the server's text has been displayed, the review section and
\* the selector container are hidden, every commit-form field is reset, and
\* the commit button's busy flag is cleared.
C11_CommitSuccessClearsBusy ==
  CommitAccepted
  => /\ LastMessageIs("success")
     /\ ReviewHidden
     /\ \A f \in FormFields : form[f] = ""
     /\ ~commitBusy

\* C11 amended: the same, the busy flag being cleared provided no other
\* commit submission was in flight during this one's life (a later submission
\* sets the flag again before this response's body is processed).
C11_CommitSuccessClearsOwnBusy ==
  CommitAccepted
  => /\ LastMessageIs("success")
     /\ ReviewHidden
     /\ \A f \in FormFields : form[f] = ""
     /\ "commit" \notin lastStep.h.overlap => ~commitBusy

\* A commit of an edited draft, submitted alone from the visible review
\* form, has been accepted.
C11_Witness ==
  /\ CommitAccepted
  /\ "commit" \notin lastStep.h.overlap
  /\ lastStep.h.form.title = "edited"
  /\ lastStep.h.form.solution # ""
  /\ form.title = ""
  /\ ~commitBusy

(* ------------------------------- C12 ---------------------------------- *)

\* C12: processing a non-2xx commit response (both resumptions of the
\* handler, whatever the body) changes nothing but the status container and
\* the busy flag: the review section and the selector container keep their
\* visibility, every review-form field keeps its value, generatedProblems
\* and the selector options are unchanged, and no request is sent.
C12_FailedCommitKeepsReview ==
  [][(lastStep'.op \in {"commitFetch", "commitJson"} /\ lastStep'.out = "notok")
       => UNCHANGED <<verificationHidden, selectorContainerHidden, form,
                      generatedProblems, problemSelector, tabVars, loaderHidden,
                      generateBusy, deleteVars, sent, reported>>]_vars

\* A commit of an edited draft was refused: the error is shown and the review
\* form still holds the submitted values.
C12_Witness ==
  /\ lastStep.op = "commitJson" /\ lastStep.out = "notok"
  /\ LastMessageIs("error")
  /\ ~verificationHidden /\ ~selectorContainerHidden
  /\ form.title = "edited"
  /\ form = lastStep.h.form
  /\ Len(Items(generatedProblems)) = 2
  /\ ~commitBusy

(* ------------------------------- C13 ---------------------------------- *)

C13_StaleIndexSelected ==
  /\ lastStep.op = "problemSelectorChange"
  /\ Len(Items(generatedProblems)) = 0
  /\ Len(problemSelector) > 0
  /\ form.title = "edited"

(* ------------------------------- C14 ---------------------------------- *)

\* C14: after every tab activation exactly one tab panel is visible, the one
\* whose id is the activated link's target, exactly one tab link is marked
\* active, the activated one, and the status container is empty.
C14_TabActivation ==
  lastStep.op = "switchTab"
  => /\ Tabs \ hiddenPanels = {lastStep.out}
     /\ Cardinality(Tabs \ hiddenPanels) = 1
     /\ activeLinks = {lastStep.out}
     /\ Cardinality(activeLinks) = 1
     /\ statusContainer = <<>>

\* The delete tab was activated while two messages whose timers are still
\* pending had been on display.
C14_Witness ==
  /\ lastStep.op = "switchTab" /\ lastStep.out = "delete"
  /\ hiddenPanels = {"generate", "commit"}
  /\ Cardinality(timers) = 2
  /\ statusContainer = <<>>

(* ------------------------------- C15 ---------------------------------- *)

\* The message appended by handler `id` is in the status container.
Displayed(id) == \E k \in DOMAIN statusContainer : statusContainer[k].id = id

\* C15: every message displayMessage appended is eventually removed from the
\* status container, and each expiry acts on its own message only: the step
\* of a timer removes the message that timer belongs to if it is still
\* displayed, at most that one, and leaves every other message, their order
\* and all other state as they are -- also when the container was cleared
\* before the timer fired.
C15_MessagesExpireIndependently ==
  /\ [][lastStep'.op = "messageTimeout"
          => LET gone == timers \ timers'
             IN  /\ Cardinality(gone) = 1
                 /\ statusContainer' = SelectSeq(statusContainer, LAMBDA m : m.id \notin gone)
                 /\ Len(statusContainer) - Len(statusContainer') <= 1
                 /\ UNCHANGED <<tabVars, generateVars, deleteVars, commitBusy,
                                handlers, sent, unhandled, reported>>]_vars
  /\ \A id \in 1..MaxRequests : Displayed(id) ~> ~Displayed(id)

\* The timer of the first message has fired and the second message, appended
\* while the first timer was pending, is still displayed with its own timer.
C15_Witness ==
  /\ lastStep.op = "messageTimeout"
  /\ Len(statusContainer) = 1
  /\ statusContainer[1].id = 2
  /\ timers = {2}

(* ------------------------------- C16 ---------------------------------- *)

\* Generate request `id` ended by returning a non-empty batch: its handler
\* ended without a rejection and without the non-2xx message.
ReturnedBatch(id) ==
  /\ \E i \in DOMAIN sent : sent[i].id = id /\ sent[i].ep = "generate"
  /\ \A g \in handlers : g.id # id
  /\ id \notin unhandled
  /\ id \notin timers

\* C16: when a non-empty batch is processed for a generate request that
\* overlapped another generate request, and no generate response is left to
\* process, the state is that of this last-processed response whichever
\* request was submitted first: generatedProblems, the selector options, the
\* review-form belt and the review-form fields all come from it.
C16_LastResponseWins ==
  (/\ lastStep.op = "generateJson"
   /\ lastStep.body.tag = "array" /\ Len(lastStep.body.items) >= 1
   /\ "generate" \in lastStep.h.overlap
   /\ \A g \in handlers : g.kind # "generate")
  => LET items == lastStep.body.items
     IN  /\ generatedProblems = lastStep.body
         /\ Len(problemSelector) = Len(items)
         /\ \A k \in 1..Len(items) :
              /\ problemSelector[k].value = k - 1
              /\ problemSelector[k].text =
                   IF items[k].title = "" THEN "Problem " \o ToString(k) ELSE items[k].title
         /\ form = [title |-> items[1].title, topic |-> items[1].topic,
                    readme |-> items[1].readme, solution |-> items[1].solution,
                    belt |-> lastStep.h.belt]
         /\ ~verificationHidden /\ ~selectorContainerHidden

\* Two generate requests for different belts were in flight together, both
\* returned a batch, and the response to the one submitted first was
\* processed last: the state is that of the first request's response.
C16_Witness ==
  /\ lastStep.op = "generateJson" /\ lastStep.h.id = 1
  /\ Len(lastStep.body.items) = 1
  /\ ReturnedBatch(1) /\ ReturnedBatch(2)
  /\ sent[1].belt = "white" /\ sent[2].belt = "yellow"
  /\ form.belt = "white"
  /\ generatedProblems = lastStep.body

(* ------------------------------- C17 ---------------------------------- *)

\* C17 as stated: every parsed 2xx /generate response replaces
\* generatedProblems, and once a 2xx commit response has been processed the
\* previously generated batch is no longer held.
C17_BatchDiscardedAfterCommit ==
  /\ (lastStep.op = "generateJson" /\ lastStep.body # Unparsable)
       => generatedProblems = lastStep.body
  /\ CommitAccepted => Len(Items(generatedProblems)) = 0

\* C17 amended: every parsed 2xx /generate response replaces
\* generatedProblems; a successful commit leaves generatedProblems as it is
\* and hides the review section and the selector container; and the selector
\* container becomes visible again only by the processing of a non-empty
\* batch, which is then what generatedProblems holds -- so no later selector
\* event populates the form from the batch held at the commit.
C17_BatchKeptButHiddenAfterCommit ==
  [][/\ (lastStep'.op = "generateJson" /\ lastStep'.body # Unparsable)
          => generatedProblems' = lastStep'.body
     /\ (lastStep'.op = "commitJson" /\ lastStep'.out = "ok"
           /\ lastStep'.body # Unparsable)
          => /\ UNCHANGED <<generatedProblems, problemSelector>>
             /\ verificationHidden' /\ selectorContainerHidden'
     /\ (selectorContainerHidden /\ ~selectorContainerHidden')
          => /\ lastStep'.op = "generateJson"
             /\ Len(lastStep'.body.items) >= 1
             /\ generatedProblems' = lastStep'.body
     /\ lastStep'.op = "problemSelectorChange" => ~selectorContainerHidden]_vars

\* A commit was accepted and the batch of two it was taken from is still
\* held, behind the hidden selector and the reset form.
C17_Witness ==
  /\ CommitAccepted
  /\ Len(Items(generatedProblems)) = 2
  /\ Len(problemSelector) = 2
  /\ ReviewHidden
  /\ form.title = "" /\ form.solution = ""
  /\ lastStep.h.form.solution = "solution-1"

(* ------------------------------- C18 ---------------------------------- *)

\* C18 (for the requests that name a problem): every /delete request sent
\* carries a belt and a problem name such that a processed /problems
\* response reported that problem for that same belt, under every
\* interleaving of belt changes, /problems responses and delete submissions.
C18_DeleteCarriesReportedProblem ==
  \A i \in DOMAIN sent :
    (sent[i].ep = "delete" /\ sent[i].problem # "")
      => /\ sent[i].belt # ""
         /\ sent[i].problem \in reported[sent[i].belt]

(* ------------------------------- C19 ---------------------------------- *)

\* The selector has one option per item of generatedProblems and every
\* option's value is the index of an item.
OptionsMatchBatch ==
  /\ Len(problemSelector) = Len(Items(generatedProblems))
  /\ \A k \in DOMAIN problemSelector :
       problemSelector[k].value + 1 \in DOMAIN Items(generatedProblems)

\* C19 as stated: in every reachable state in which the problem selector
\* container is visible, the selector's option count equals the length of
\* generatedProblems and every option's index resolves to an item of it.
C19_VisibleSelectorMatchesBatch == ~selectorContainerHidden => OptionsMatchBatch

\* C19 amended: the same in every reachable state in which the container is
\* visible and generatedProblems holds at least one item.  (A visible
\* selector over a generatedProblems without items shows the options of an
\* earlier batch, none of which resolves.)
C19_VisibleSelectorMatchesHeldBatch ==
  (~selectorContainerHidden /\ Len(Items(generatedProblems)) >= 1) => OptionsMatchBatch

\* Two generate requests were sent and answered, and an option of the
\* visible selector, which lists the one draft generatedProblems holds, was
\* selected.
C19_Witness ==
  /\ ~selectorContainerHidden
  /\ Len(Items(generatedProblems)) = 1
  /\ Len(problemSelector) = 1 /\ problemSelector[1].value = 0
  /\ Len(sent) = 2 /\ sent[1].ep = "generate" /\ sent[2].ep = "generate"
  /\ handlers = {}
  /\ lastStep.op = "problemSelectorChange"

(* ------------------------------- C20 ---------------------------------- *)

\* C20: the review section and the problem selector container always have
\* the same visibility: from both hidden, after any sequence of generate
\* submissions and responses, commit submissions and responses, tab switches
\* and delete-workflow events, one is hidden if and only if the other is.
C20_ReviewAndSelectorTogether == verificationHidden <=> selectorContainerHidden

\* Both are visible after a generation, with the delete tab active and a
\* belt lookup answered in the delete panel.
C20_Witness ==
  /\ ~verificationHidden /\ ~selectorContainerHidden
  /\ activeLinks = {"delete"}
  /\ deleteBelt # "" /\ ~deleteBtnDisabled
  /\ handlers = {}

====
